---- MODULE Spec2Model ----
(***************************************************************************)
(* Emergency notification subsystem: ConfigurationManager (encrypted       *)
(* credential store and contact list, emergency/config_manager.py) and     *)
(* EmergencyAlertService (composition, two-channel dispatch, ledger,       *)
(* emergency/alert_service.py).                                            *)
(*                                                                         *)
(* The file system holds two artifacts: the key file and the JSON config   *)
(* file.  Several ConfigurationManager instances (one per script or        *)
(* session) work over the same two files; every EmergencyAlertService      *)
(* wraps one manager.                                                      *)
(*                                                                         *)
(* Strings: emoji are written as ASCII marks with the same number of code  *)
(* points ("#" for one code point, "##" for an emoji followed by a         *)
(* variation selector).  Phone numbers are sequences of one-character      *)
(* strings so that re.sub(r'\D', '', s) can be computed.                   *)
(***************************************************************************)
EXTENDS Integers, Sequences, FiniteSets, TLC

(* ------------------------------ bounds --------------------------------- *)
NumManagers == 2
MaxContacts == 2
MaxLedger == 2

Managers == 1..NumManagers

(* ------------------------------ inputs --------------------------------- *)
\* save_twilio_config(account_sid, auth_token, from_number)
CredInputs ==
  { <<"AC1", "secret1", "+15550001111">>,
    <<"AC2", "secret2", "+15550002222">> }

Secrets == { c[2] : c \in CredInputs }

PhoneTenDigits == <<"9","9","9","8","8","8","7","7","7","7">>
PhonePunctuated == <<"(","5","5","5",")","1","2","3","-","4","5","6","7">>
PhoneElevenCoded == <<"+","1","5","5","5","0","0","0","1","1","1","1">>
PhoneThreeDigits == <<"1","2","3">>
PhoneForeign == <<"+","9","1","8","3","1","9","6","1","2","0","6","0">>

ContactInputs ==
  { <<"Dr A", PhoneTenDigits, 2>>,
    <<"Dr B", PhonePunctuated, 1>>,
    <<"Dr C", PhoneThreeDigits, 1>>,
    <<"Dr D", PhoneForeign, 3>>,
    <<"Dr E", PhoneElevenCoded, 2>> }

NotesEmpty == <<>>
NotesShort == <<" ", "f", "e", "v", "e", "r", " ">>

PatientFull ==
  [age |-> 5, gender |-> 1, case_id |-> "NGP_0042", seizures |-> 1,
   cardiac_abnormalities |-> 1, respiratory_issues |-> 0, developmental_delay |-> 1,
   failure_to_thrive |-> 1]
PatientBare == [heart_rate |-> 90]

\* send_emergency_alert(patient_data, urgency_level, user_notes, phone_number)
TestRecipients == {PhoneForeign}

AlertInputs ==
  { <<PatientFull, "Critical", NotesShort, PhoneForeign>> }
\* the same, and a patient_data without age, gender, case_id or symptoms
LedgerAlertInputs ==
  AlertInputs \cup { <<PatientBare, "Low", NotesEmpty, PhoneForeign>> }

\* phone_number arguments of every accepted and rejected shape: an optional
\* plus sign, a first digit, an optional dash, then further digits
MaxPhoneDigits == 12
PhoneOf(lead, first, n, dashed) ==
  lead \o <<first>> \o (IF dashed THEN <<"-">> ELSE <<>>) \o [i \in 1..n |-> "5"]
PhoneInputs ==
  { PhoneOf(lead, first, n, dashed) :
      lead \in {<<>>, <<"+">>}, first \in {"1", "9"},
      n \in 0..(MaxPhoneDigits - 1), dashed \in BOOLEAN }
  \cup {PhoneTenDigits, PhonePunctuated, PhoneElevenCoded, PhoneThreeDigits, PhoneForeign}

\* patient_data dictionaries: each of age, gender, case_id present or absent,
\* the case id short or long, no symptom or four symptoms set
MaxCaseIdLen == 80
RECURSIVE Repeat(_, _)
Repeat(piece, n) == IF n = 0 THEN "" ELSE piece \o Repeat(piece, n - 1)
CaseIdLong == Repeat("7", MaxCaseIdLen)
AgeChoices == {<<>>, <<5>>}
GenderChoices == {<<>>, <<0>>, <<1>>}
CaseIdChoices == {<<>>, <<"NGP_0042">>, <<CaseIdLong>>}
SymptomChoices ==
  { {}, {"seizures", "cardiac_abnormalities", "developmental_delay", "failure_to_thrive"} }
PatientOf(age, gender, case_id, symptoms) ==
  [k \in symptoms |-> 1]
  @@ (IF age = <<>> THEN <<>> ELSE [age |-> age[1]])
  @@ (IF gender = <<>> THEN <<>> ELSE [gender |-> gender[1]])
  @@ (IF case_id = <<>> THEN <<>> ELSE [case_id |-> case_id[1]])
  @@ PatientBare
PatientInputs ==
  { PatientOf(age, gender, case_id, symptoms) :
      age \in AgeChoices, gender \in GenderChoices,
      case_id \in CaseIdChoices, symptoms \in SymptomChoices }
\* notes of spaces only, and notes longer than the 50 characters shown
MaxNotesLen == 60
NotesBlank == <<" ", " ">>
NotesLong == [i \in 1..MaxNotesLen |-> "n"]
NotesInputs == {NotesEmpty, NotesShort, NotesBlank, NotesLong}

\* the clock advances this far
MaxClock == 1

\* the manager a service with a history is built over
LedgerManager == 1

\* threads calling send_emergency_alert on the one service
NumCallers == 2
Callers == 1..NumCallers
\* the caller of the specification that has one call at a time
StepCaller == 1

(* --------------------------- distinguished values ---------------------- *)
\* Optional values: None is the empty tuple, Some(x) the one-element tuple
None == <<>>
Some(x) == <<x>>
\* a file that does not exist
NoFile == [exists |-> FALSE]
File(content) == [exists |-> TRUE, content |-> content]
EmptyDict == <<>>
\* no Fernet key; keys are numbered from 1
NoKey == 0

\* no add_emergency_contact or save_twilio_config call in progress
NoWrite == [pc |-> "idle"]
\* emergency_config.json between open(config_file, 'w') and the end of
\* json.dump: truncated, not yet valid JSON; _load_config reads it as {}
TornFile == [exists |-> TRUE, content |-> EmptyDict, torn |-> TRUE]
IsTorn(file) == "torn" \in DOMAIN file

\* no send_emergency_alert call in progress, none completed
Idle == [pc |-> "idle", recorded |-> 0]

(* ------------------------------- state --------------------------------- *)
VARIABLES
  keyFile,        \* content of encryption.key, or NoFile
  configFile,     \* parsed content of emergency_config.json, or NoFile
  keysGenerated,  \* number of Fernet.generate_key() calls so far
  mgr,            \* per ConfigurationManager: construction position and cipher
  svc,            \* per EmergencyAlertService: twilio_client and alert_history
  twilioAvailable,\* module flag TWILIO_AVAILABLE
  now,            \* wall clock, seconds into the day
  lastSave,       \* most recent successful save_twilio_config (history)
  ret,            \* the last completed call: inputs, result, provider calls
  wr,             \* per manager: its config write in progress; the writes that
                  \* returned True (history)
  run             \* per caller: its send_emergency_alert call in progress and the
                  \* position it is at

vars == <<keyFile, configFile, keysGenerated, mgr, svc, twilioAvailable, now,
          lastSave, ret, wr, run>>

(* ------------------------------ dictionaries --------------------------- *)
\* dict.get(k, default)
Get(d, k, default) == IF k \in DOMAIN d THEN d[k] ELSE default

\* d[k] = v
Put(d, k, v) == (k :> v) @@ d

(* ------------------------------- Fernet -------------------------------- *)
\* A stored text is [fernet |-> k, payload |-> p]: for k >= 1 the Fernet token
\* of p under key k, for k = NoKey the text p itself.
Plain(text) == [fernet |-> NoKey, payload |-> text]

\* cipher.encrypt(plain): a token bound to the key it was made with
Encrypt(key, plain) == [fernet |-> key, payload |-> plain]

\* cipher.decrypt(token) succeeds only with the key that made the token
CanDecrypt(key, token) == token.fernet # NoKey /\ token.fernet = key

Decrypt(key, token) == token.payload

(* --------------------------- phone numbers ----------------------------- *)
Digits == {"0","1","2","3","4","5","6","7","8","9"}

IsDigit(ch) == ch \in Digits

\* re.sub(r'\D', '', phone_number)
DigitsOnly(phone_number) == SelectSeq(phone_number, IsDigit)

ValidateLenMutant(phone_number) ==
  LET digits_only == DigitsOnly(phone_number)
  IN  Len(digits_only) >= 3

validate_phone_number(phone_number) ==
  LET digits_only == DigitsOnly(phone_number)
  IN  IF Len(digits_only) = 10 THEN TRUE
      ELSE IF Len(digits_only) = 11 /\ digits_only[1] = "1" THEN TRUE
      ELSE FALSE

FormatNoCallingCodeMutant(phone_number) ==
  LET digits_only == DigitsOnly(phone_number)
  IN  IF Len(digits_only) \in {10, 11} THEN <<"+">> \o digits_only ELSE phone_number

\* format_phone_number: E.164 for the two accepted shapes, else the input
format_phone_number(phone_number) ==
  LET digits_only == DigitsOnly(phone_number)
  IN  IF Len(digits_only) = 10 THEN <<"+", "1">> \o digits_only
      ELSE IF Len(digits_only) = 11 /\ digits_only[1] = "1" THEN <<"+">> \o digits_only
      ELSE phone_number

(* ------------------------- config file access -------------------------- *)
\* _load_config: the parsed file, or {} when the file does not exist
LoadConfig == IF ~configFile.exists THEN EmptyDict ELSE configFile.content

IsoFormat(t) == <<"iso", t>>

SaveTokenPlainMutant(m, account_sid, auth_token, from_number) ==
  Put(LoadConfig, "twilio",
      [account_sid |-> account_sid,
       auth_token |-> Plain(auth_token),
       from_phone_number |-> from_number,
       is_configured |-> TRUE,
       last_updated |-> IsoFormat(now)])

SaveSwapMutant(m, account_sid, auth_token, from_number) ==
  Put(LoadConfig, "twilio",
      [account_sid |-> from_number,
       auth_token |-> Encrypt(mgr[m].cipher, auth_token),
       from_phone_number |-> account_sid,
       is_configured |-> TRUE,
       last_updated |-> IsoFormat(now)])

SaveDropsContactsMutant(m, account_sid, auth_token, from_number) ==
  Put(EmptyDict, "twilio",
      [account_sid |-> account_sid,
       auth_token |-> Encrypt(mgr[m].cipher, auth_token),
       from_phone_number |-> from_number,
       is_configured |-> TRUE,
       last_updated |-> IsoFormat(now)])

\* the dict save_twilio_config hands to _save_config
SavedTwilioConfig(m, account_sid, auth_token, from_number) ==
  LET config == LoadConfig
      encrypted_token == Encrypt(mgr[m].cipher, auth_token)
  IN  Put(config, "twilio",
          [account_sid |-> account_sid,
           auth_token |-> encrypted_token,
           from_phone_number |-> from_number,
           is_configured |-> TRUE,
           last_updated |-> IsoFormat(now)])

GetNoDecryptCheckMutant(m) ==
  LET twilio_config == Get(LoadConfig, "twilio", EmptyDict)
  IN  IF ~Get(twilio_config, "is_configured", FALSE) THEN None
      ELSE Some([account_sid |-> Get(twilio_config, "account_sid", ""),
                 auth_token |-> "",
                 from_phone_number |-> Get(twilio_config, "from_phone_number", ""),
                 is_configured |-> TRUE,
                 last_tested |-> IsoFormat(now)])

\* get_twilio_config: the TwilioConfig, or None (not configured, or the
\* except branch after cipher.decrypt raised)
get_twilio_config(m) ==
  LET config == LoadConfig
      twilio_config == Get(config, "twilio", EmptyDict)
  IN  IF ~Get(twilio_config, "is_configured", FALSE) THEN None
      ELSE LET encrypted_token == Get(twilio_config, "auth_token", Plain(""))
           IN  IF ~CanDecrypt(mgr[m].cipher, encrypted_token) THEN None
               ELSE Some([account_sid |-> Get(twilio_config, "account_sid", ""),
                          auth_token |-> Decrypt(mgr[m].cipher, encrypted_token),
                          from_phone_number |-> Get(twilio_config, "from_phone_number", ""),
                          is_configured |-> TRUE,
                          last_tested |-> IsoFormat(now)])

\* which of the two None-returning branches get_twilio_config took
DecryptFails(m) ==
  LET twilio_config == Get(LoadConfig, "twilio", EmptyDict)
  IN  /\ Get(twilio_config, "is_configured", FALSE)
      /\ ~CanDecrypt(mgr[m].cipher, Get(twilio_config, "auth_token", Plain("")))

NeverConfigured == ~Get(Get(LoadConfig, "twilio", EmptyDict), "is_configured", FALSE)

\* the contact list as persisted
StoredContacts == Get(LoadConfig, "emergency_contacts", <<>>)

\* sorted(contacts, key=priority): stable insertion by ascending priority
RECURSIVE InsertByPriority(_, _)
InsertByPriority(sorted, c) ==
  IF sorted = <<>> THEN <<c>>
  ELSE IF c.priority < Head(sorted).priority THEN <<c>> \o sorted
  ELSE <<Head(sorted)>> \o InsertByPriority(Tail(sorted), c)

RECURSIVE SortedByPriority(_)
SortedByPriority(contacts) ==
  IF contacts = <<>> THEN <<>>
  ELSE InsertByPriority(SortedByPriority(SubSeq(contacts, 1, Len(contacts) - 1)),
                        contacts[Len(contacts)])

GetContactsUnsortedMutant ==
  LET IsActive(c) == Get(c, "is_active", TRUE)
  IN  SelectSeq(StoredContacts, IsActive)

\* get_emergency_contacts: the active entries, ascending by priority
get_emergency_contacts ==
  LET IsActive(c) == Get(c, "is_active", TRUE)
  IN  SortedByPriority(SelectSeq(StoredContacts, IsActive))

(* ------------------------------ clock ---------------------------------- *)
Pad2(n) == IF n < 10 THEN "0" \o ToString(n) ELSE ToString(n)

\* strftime('%H%M%S') of the clock value t (seconds into the day)
StrfHMS(t) == Pad2((t \div 3600) % 24) \o Pad2((t \div 60) % 60) \o Pad2(t % 60)

\* strftime('%Y%m%d_%H%M%S'); the date part does not change within a run
StrfYmdHMS(t) == "20250101_" \o StrfHMS(t)

\* strftime('%H:%M')
StrfHM(t) == Pad2((t \div 3600) % 24) \o ":" \o Pad2((t \div 60) % 60)

(* ----------------------------- composer -------------------------------- *)
\* A text is a sequence of string pieces; its length is the sum of theirs.
RECURSIVE TextLen(_)
TextLen(text) == IF text = <<>> THEN 0 ELSE Len(Head(text)) + TextLen(Tail(text))

\* sep.join(parts), for parts that are texts
RECURSIVE Join(_, _)
Join(parts, sep) ==
  IF parts = <<>> THEN <<>>
  ELSE IF Len(parts) = 1 THEN parts[1]
  ELSE parts[1] \o <<sep>> \o Join(Tail(parts), sep)

\* str.strip() on a sequence of characters
RECURSIVE LStrip(_)
LStrip(cs) == IF cs # <<>> /\ Head(cs) = " " THEN LStrip(Tail(cs)) ELSE cs

RECURSIVE RStrip(_)
RStrip(cs) ==
  IF cs # <<>> /\ cs[Len(cs)] = " " THEN RStrip(SubSeq(cs, 1, Len(cs) - 1)) ELSE cs

Strip(cs) == RStrip(LStrip(cs))

\* s[:n]
Prefix(cs, n) == SubSeq(cs, 1, IF Len(cs) < n THEN Len(cs) ELSE n)

SmsLimit == 160
NotesLimit == 50
MaxSymptoms == 3

UrgencyLevel == {"Low", "Medium", "High", "Critical"}

SymptomChecksReorderedMutant ==
  << <<"cardiac_abnormalities", "Cardiac issues">>,
     <<"seizures", "Seizures">>,
     <<"respiratory_issues", "Respiratory issues">>,
     <<"developmental_delay", "Dev delay">>,
     <<"intellectual_disability", "Intellectual disability">>,
     <<"failure_to_thrive", "Failure to thrive">> >>

symptom_checks ==
  << <<"seizures", "Seizures">>,
     <<"cardiac_abnormalities", "Cardiac issues">>,
     <<"respiratory_issues", "Respiratory issues">>,
     <<"developmental_delay", "Dev delay">>,
     <<"intellectual_disability", "Intellectual disability">>,
     <<"failure_to_thrive", "Failure to thrive">> >>

\* f"{age}" for patient_data.get('age', default)
AgeText(patient_data, default) ==
  IF "age" \in DOMAIN patient_data THEN ToString(patient_data["age"]) ELSE default

\* _format_emergency_message at clock value t
format_emergency_message(patient_data, urgency_level, user_notes, t) ==
  LET age == AgeText(patient_data, "Unknown")
      g == Get(patient_data, "gender", -1)
      gender == IF g = 1 THEN "Male" ELSE IF g = 0 THEN "Female" ELSE "Unknown"
      case_id == Get(patient_data, "case_id", "CASE_" \o StrfHMS(t))
      urgency_prefix ==
        CASE urgency_level = "Critical" -> "# CRITICAL EMERGENCY"
          [] urgency_level = "High" -> "## HIGH PRIORITY"
          [] urgency_level = "Medium" -> "# MEDIUM PRIORITY"
          [] urgency_level = "Low" -> "## LOW PRIORITY"
          [] OTHER -> "# EMERGENCY"
      Present(chk) == Get(patient_data, chk[1], 0) = 1
      present == SelectSeq(symptom_checks, Present)
      key_symptoms == [i \in 1..Len(present) |-> <<present[i][2]>>]
      shown == SubSeq(key_symptoms, 1,
                      IF Len(key_symptoms) < MaxSymptoms THEN Len(key_symptoms)
                      ELSE MaxSymptoms)
      symptoms_part ==
        IF key_symptoms # <<>> THEN << <<"Symptoms: ">> \o Join(shown, ", ") >> ELSE <<>>
      notes_part ==
        IF Strip(user_notes) # <<>>
          THEN << <<"Notes: ">> \o Prefix(Strip(user_notes), NotesLimit) >>
          ELSE <<>>
      timestamp == StrfHM(t)
      message_parts ==
        << <<urgency_prefix, " - NGP Alert">>,
           <<"Patient: ", age, "yr ", gender>>,
           <<"Case: ", case_id>> >>
        \o symptoms_part \o notes_part
        \o << <<"Time: ", timestamp>>, <<"Please respond ASAP">> >>
      message == Join(message_parts, " | ")
      essential_parts ==
        << <<urgency_prefix>>,
           <<"Patient: ", age, "yr ", gender>>,
           <<"Case: ", case_id>>,
           <<"Time: ", timestamp>>,
           <<"Check NGP system">> >>
  IN  IF TextLen(message) > SmsLimit THEN Join(essential_parts, " | ") ELSE message

\* _generate_voice_message: the announcement, said twice
generate_voice_message(urgency_level, patient_data) ==
  LET age == AgeText(patient_data, "unknown")
      gender == IF Get(patient_data, "gender", -1) = 1 THEN "male" ELSE "female"
      urgency_text ==
        CASE urgency_level = "Critical" -> "CRITICAL EMERGENCY"
          [] urgency_level = "High" -> "HIGH PRIORITY EMERGENCY"
          [] urgency_level = "Medium" -> "MEDIUM PRIORITY ALERT"
          [] urgency_level = "Low" -> "LOW PRIORITY ALERT"
          [] OTHER -> "EMERGENCY ALERT"
      say == <<urgency_text, " from Novel Genetic Predictor system. ",
               "Emergency alert for ", age, " year old ", gender, " patient. ",
               "Please check your SMS for detailed information. ">>
  IN  <<"<Response><Say>">> \o say \o <<"This message will repeat once.">>
      \o <<"</Say><Pause length=2/><Say>">> \o say \o <<"</Say></Response>">>

(* ------------------------- channel dispatcher -------------------------- *)
\* what the provider does with one create() call
ProviderOutcomes == {"ok", "TwilioException", "Exception"}

MessageSid == "SM1"
CallSid == "CA1"

\* only the provider's own exception is caught; any other one propagates and
\* the call has no result
SendSmsUncaughtMutant(outcome) ==
  IF outcome = "ok" THEN <<TRUE, MessageSid>>
  ELSE IF outcome = "TwilioException" THEN <<FALSE, "Twilio SMS error">>
  ELSE <<>>

\* _send_sms: (ok, sid | error detail) for the provider's outcome
send_sms(outcome) ==
  IF outcome = "ok" THEN <<TRUE, MessageSid>>
  ELSE IF outcome = "TwilioException" THEN <<FALSE, "Twilio SMS error">>
  ELSE <<FALSE, "SMS error">>

\* _make_voice_call: (ok, sid | error detail) for the provider's outcome
make_voice_call(outcome) ==
  IF outcome = "ok" THEN <<TRUE, CallSid>>
  ELSE IF outcome = "TwilioException" THEN <<FALSE, "Twilio voice call error">>
  ELSE <<FALSE, "Voice call error">>

\* one provider request as issued: channel, addresses, the client's login
ProviderCall(channel, client, to_number, from_number) ==
  [channel |-> channel, auth |-> client, to |-> to_number, from_ |-> from_number]

(* ----------------------- EmergencyAlertService ------------------------- *)
\* _initialize_twilio_client: the client it installs, or None
initialize_twilio_client(m) ==
  LET twilio_config == get_twilio_config(m)
  IN  IF ~twilioAvailable THEN None
      ELSE IF twilio_config # None /\ twilio_config[1].is_configured
        THEN Some([account_sid |-> twilio_config[1].account_sid,
                   auth_token |-> twilio_config[1].auth_token])
        ELSE None

\* the client a call works with: the cached one, else a newly initialised one
ClientFor ==
  IF svc.twilio_client # None THEN svc.twilio_client
  ELSE initialize_twilio_client(svc.config_manager)

(* ----------------------- ConfigurationManager -------------------------- *)
Ready(m) == mgr[m].pc = "ready"

\* __init__ up to os.path.exists(self.key_file)
MgrCheckKeyFile(m) ==
  /\ mgr[m].pc = "unborn"
  /\ mgr' = [mgr EXCEPT ![m] = [pc |-> "checked", sawKey |-> keyFile.exists,
                                cipher |-> NoKey]]
  /\ UNCHANGED <<wr, run, keyFile, configFile, keysGenerated, svc, twilioAvailable, now,
                 lastSave, ret>>

\* the rest of _get_or_create_cipher: read the key, or generate and write one
MgrGetOrCreateCipher(m) ==
  /\ mgr[m].pc = "checked"
  /\ IF mgr[m].sawKey
       THEN /\ mgr' = [mgr EXCEPT ![m] = [pc |-> "ready", sawKey |-> TRUE,
                                          cipher |-> keyFile.content]]
            /\ UNCHANGED <<keyFile, keysGenerated>>
       ELSE /\ keysGenerated' = keysGenerated + 1
            /\ keyFile' = File(keysGenerated + 1)
            /\ mgr' = [mgr EXCEPT ![m] = [pc |-> "ready", sawKey |-> FALSE,
                                          cipher |-> keysGenerated + 1]]
  /\ UNCHANGED <<wr, run, configFile, svc, twilioAvailable, now, lastSave, ret>>

save_twilio_config(m, account_sid, auth_token, from_number) ==
  /\ Ready(m)
  /\ configFile' = File(SavedTwilioConfig(m, account_sid, auth_token, from_number))
  /\ lastSave' = Some([by |-> m, creds |-> <<account_sid, auth_token, from_number>>])
  /\ ret' = [op |-> "save_twilio_config", m |-> m, result |-> TRUE]
  /\ UNCHANGED <<wr, run, keyFile, keysGenerated, mgr, svc, twilioAvailable, now>>

GetTwilioConfig(m) ==
  /\ Ready(m)
  /\ ret' = [op |-> "get_twilio_config", m |-> m, result |-> get_twilio_config(m),
             decryptFailed |-> DecryptFails(m)]
  /\ UNCHANGED <<wr, run, keyFile, configFile, keysGenerated, mgr, svc, twilioAvailable,
                 now, lastSave>>

add_emergency_contact(m, name, phone_number, priority) ==
  /\ Ready(m)
  /\ Len(StoredContacts) < MaxContacts
  /\ IF ~validate_phone_number(phone_number)
       THEN /\ ret' = [op |-> "add_emergency_contact", m |-> m,
                       phone_number |-> phone_number, result |-> FALSE,
                       stored |-> StoredContacts,
                       listed |-> Len(get_emergency_contacts)]
            /\ UNCHANGED configFile
       ELSE LET config == LoadConfig
                contacts == Get(config, "emergency_contacts", <<>>)
                contact == [contact_id |-> "contact_" \o ToString(Len(contacts) + 1),
                            name |-> name,
                            phone_number |-> phone_number,
                            priority |-> priority,
                            is_active |-> TRUE,
                            created_date |-> IsoFormat(now)]
            IN  /\ configFile' = File(Put(config, "emergency_contacts",
                                          Append(contacts, contact)))
                /\ ret' = [op |-> "add_emergency_contact", m |-> m,
                           phone_number |-> phone_number, result |-> TRUE,
                           stored |-> StoredContacts,
                           listed |-> Len(get_emergency_contacts)]
  /\ UNCHANGED <<wr, run, keyFile, keysGenerated, mgr, svc, twilioAvailable, now, lastSave>>

GetEmergencyContacts(m) ==
  /\ Ready(m)
  /\ ret' = [op |-> "get_emergency_contacts", m |-> m,
             result |-> get_emergency_contacts]
  /\ UNCHANGED <<wr, run, keyFile, configFile, keysGenerated, mgr, svc, twilioAvailable,
                 now, lastSave>>

\* DeliveryStatus values
DeliveryStatus == {"pending", "sent", "delivered", "failed", "undelivered"}

AlertCallSidAlwaysMutant(alert_id, t, patient_data, urgency_level, sms_message, phone_number, sms_result, voice_result, user_notes) ==
  [alert_id |-> alert_id,
   timestamp |-> t,
   patient_case_id |-> Get(patient_data, "case_id", "CASE_" \o StrfYmdHMS(t)),
   urgency_level |-> urgency_level,
   message_content |-> sms_message,
   recipient_phone |-> phone_number,
   delivery_status |-> IF sms_result[1] THEN "sent" ELSE "failed",
   message_sid |-> IF sms_result[1] THEN Some(sms_result[2]) ELSE None,
   call_sid |-> Some(voice_result[2]),
   user_notes |-> user_notes,
   patient_context |-> patient_data]

\* the EmergencyAlert built after both sends
EmergencyAlert(alert_id, t, patient_data, urgency_level, sms_message, phone_number, sms_result, voice_result, user_notes) ==
  [alert_id |-> alert_id,
   timestamp |-> t,
   patient_case_id |-> Get(patient_data, "case_id", "CASE_" \o StrfYmdHMS(t)),
   urgency_level |-> urgency_level,
   message_content |-> sms_message,
   recipient_phone |-> phone_number,
   delivery_status |-> IF sms_result[1] THEN "sent" ELSE "failed",
   message_sid |-> IF sms_result[1] THEN Some(sms_result[2]) ELSE None,
   call_sid |-> IF voice_result[1] THEN Some(voice_result[2]) ELSE None,
   user_notes |-> user_notes,
   patient_context |-> patient_data]

StoreOnlyDeliveredMutant(alert_history, alert) ==
  IF alert.message_sid = None /\ alert.call_sid = None THEN alert_history
  ELSE Append(alert_history, alert)

\* self.alert_history.append(alert)
StoreInHistory(alert_history, alert) == Append(alert_history, alert)

StatusBoth == "# Emergency alert sent successfully! "
StatusSmsOnly == "## SMS sent successfully"
StatusVoiceOnly == "## Voice call initiated successfully"
StatusNone == "# Both SMS and voice call failed"

ClassifyAllOrNothingMutant(sms_ok, voice_ok) ==
  IF sms_ok /\ voice_ok THEN <<TRUE, StatusBoth>>
  ELSE IF sms_ok THEN <<FALSE, StatusSmsOnly>>
  ELSE IF voice_ok THEN <<FALSE, StatusVoiceOnly>>
  ELSE <<FALSE, StatusNone>>

\* the (success, status) pair returned after the record is stored
Classify(sms_ok, voice_ok) ==
  IF sms_ok /\ voice_ok THEN <<TRUE, StatusBoth>>
  ELSE IF sms_ok THEN <<TRUE, StatusSmsOnly>>
  ELSE IF voice_ok THEN <<TRUE, StatusVoiceOnly>>
  ELSE <<FALSE, StatusNone>>

\* EmergencyAlertService.__init__ over manager m
SvcConstruct(m) ==
  /\ Ready(m)
  /\ ~svc.constructed
  /\ svc' = [constructed |-> TRUE, config_manager |-> m,
             twilio_client |-> initialize_twilio_client(m),
             alert_history |-> <<>>]
  /\ UNCHANGED <<wr, run, keyFile, configFile, keysGenerated, mgr, twilioAvailable, now,
                 lastSave, ret>>

send_emergency_alert(patient_data, urgency_level, user_notes, phone_number, smsOutcome, voiceOutcome) ==
  /\ svc.constructed
  /\ Len(svc.alert_history) < MaxLedger
  /\ LET client == ClientFor
         lenBefore == Len(svc.alert_history)
     IN  IF client = None
           THEN /\ ret' = [op |-> "send_emergency_alert", success |-> FALSE,
                           status |-> "Twilio client not available",
                           alert |-> None, calls |-> <<>>, lenBefore |-> lenBefore,
                           delivered |-> <<FALSE, FALSE>>]
                /\ UNCHANGED svc
           ELSE
             LET alert_id == "EMRG_" \o StrfYmdHMS(now)
                 sms_message == format_emergency_message(patient_data, urgency_level,
                                                         user_notes, now)
                 twilio_config == get_twilio_config(svc.config_manager)
             IN  IF twilio_config = None
                   THEN /\ ret' = [op |-> "send_emergency_alert", success |-> FALSE,
                                   status |-> "Twilio configuration not found",
                                   alert |-> None, calls |-> <<>>,
                                   lenBefore |-> lenBefore,
                                   delivered |-> <<FALSE, FALSE>>]
                        /\ svc' = [svc EXCEPT !.twilio_client = client]
                   ELSE
                     LET from_number == twilio_config[1].from_phone_number
                         sms_result == send_sms(smsOutcome)
                         voice_result == make_voice_call(voiceOutcome)
                         alert == EmergencyAlert(alert_id, now, patient_data,
                                                 urgency_level, sms_message,
                                                 phone_number, sms_result,
                                                 voice_result, user_notes)
                         outcome == Classify(sms_result[1], voice_result[1])
                     IN  /\ svc' = [svc EXCEPT
                                      !.twilio_client = client,
                                      !.alert_history = StoreInHistory(@, alert)]
                         /\ ret' = [op |-> "send_emergency_alert",
                                    success |-> outcome[1], status |-> outcome[2],
                                    alert |-> Some(alert),
                                    calls |-> << ProviderCall("sms", client[1],
                                                   phone_number, from_number),
                                                 ProviderCall("voice", client[1],
                                                   phone_number, from_number) >>,
                                    lenBefore |-> lenBefore,
                                    delivered |-> <<smsOutcome = "ok",
                                                    voiceOutcome = "ok">>]
  /\ UNCHANGED <<wr, run, keyFile, configFile, keysGenerated, mgr, twilioAvailable, now,
                 lastSave>>

TestAlsoCallsMutant(client, test_phone_number, from_number) ==
  << ProviderCall("sms", client, test_phone_number, from_number),
     ProviderCall("voice", client, test_phone_number, from_number) >>

\* the provider requests of test_sms_configuration: one _send_sms
TestRequests(client, test_phone_number, from_number) ==
  << ProviderCall("sms", client, test_phone_number, from_number) >>

test_sms_configuration(test_phone_number, smsOutcome) ==
  /\ svc.constructed
  /\ LET client == ClientFor
         lenBefore == Len(svc.alert_history)
     IN  IF client = None
           THEN /\ ret' = [op |-> "test_sms_configuration", ok |-> FALSE,
                           status |-> "Twilio client not available",
                           calls |-> <<>>, lenBefore |-> lenBefore,
                           historyBefore |-> svc.alert_history]
                /\ UNCHANGED svc
           ELSE
             LET twilio_config == get_twilio_config(svc.config_manager)
             IN  IF twilio_config = None
                   THEN /\ ret' = [op |-> "test_sms_configuration", ok |-> FALSE,
                                   status |-> "Twilio configuration not found",
                                   calls |-> <<>>, lenBefore |-> lenBefore,
                                   historyBefore |-> svc.alert_history]
                        /\ svc' = [svc EXCEPT !.twilio_client = client]
                   ELSE
                     LET from_number == twilio_config[1].from_phone_number
                         result == send_sms(smsOutcome)
                     IN  /\ svc' = [svc EXCEPT !.twilio_client = client]
                         /\ ret' = [op |-> "test_sms_configuration",
                                    ok |-> result[1],
                                    status |-> IF result[1]
                                                 THEN " Test SMS sent successfully! "
                                                 ELSE "# Test SMS failed: " \o result[2],
                                    calls |-> TestRequests(client[1],
                                               test_phone_number, from_number),
                                    lenBefore |-> lenBefore,
                                    historyBefore |-> svc.alert_history]
  /\ UNCHANGED <<wr, run, keyFile, configFile, keysGenerated, mgr, twilioAvailable, now,
                 lastSave>>

HistoryNoCopyMutant == [list |-> svc.alert_history, shared |-> TRUE]

\* self.alert_history.copy(): a new list of the same records, sharing nothing
\* with the ledger's list
HistoryCopy == [list |-> svc.alert_history, shared |-> FALSE]

get_alert_history ==
  /\ svc.constructed
  /\ ret' = [op |-> "get_alert_history", result |-> HistoryCopy.list,
             shared |-> HistoryCopy.shared, mutated |-> FALSE]
  /\ UNCHANGED <<wr, run, keyFile, configFile, keysGenerated, mgr, svc, twilioAvailable,
                 now, lastSave>>

\* what a caller may do to a list it holds
ListMutations == {"append", "pop", "reverse"}
Reverse(list) == [i \in 1..Len(list) |-> list[Len(list) + 1 - i]]
Mutated(list, kind) ==
  CASE kind = "append" -> Append(list, [alert_id |-> "caller's own"])
    [] kind = "pop" -> SubSeq(list, 1, Len(list) - 1)
    [] kind = "reverse" -> Reverse(list)

\* the caller changes the list get_alert_history returned; a list shared with
\* the ledger changes there too
CallerMutatesResult(kind) ==
  /\ ret.op = "get_alert_history"
  /\ ~ret.mutated
  /\ Mutated(ret.result, kind) # ret.result
  /\ ret' = [ret EXCEPT !.result = Mutated(ret.result, kind), !.mutated = TRUE]
  /\ svc' = IF ret.shared
              THEN [svc EXCEPT !.alert_history = Mutated(ret.result, kind)]
              ELSE svc
  /\ UNCHANGED <<wr, run, keyFile, configFile, keysGenerated, mgr, twilioAvailable, now,
                 lastSave>>

(* ------------- the two config writers, statement by statement ---------- *)
\* add_emergency_contact lines 107-124: validate, load, build the new config
AddLoad(m, name, phone_number, priority) ==
  /\ Ready(m)
  /\ wr.pending[m].pc = "idle"
  /\ Len(StoredContacts) < MaxContacts
  /\ IF ~validate_phone_number(phone_number)
       THEN /\ ret' = [op |-> "add_emergency_contact", m |-> m, result |-> FALSE]
            /\ UNCHANGED wr
       ELSE LET config == LoadConfig
                contacts == Get(config, "emergency_contacts", <<>>)
                contact == [contact_id |-> "contact_" \o ToString(Len(contacts) + 1),
                            name |-> name,
                            phone_number |-> phone_number,
                            priority |-> priority,
                            is_active |-> TRUE,
                            created_date |-> IsoFormat(now)]
            IN  /\ wr' = [wr EXCEPT !.pending[m] =
                            [pc |-> "loaded", op |-> "add_emergency_contact",
                             name |-> name, creds |-> None,
                             config |-> Put(config, "emergency_contacts",
                                            Append(contacts, contact))]]
                /\ UNCHANGED ret
  /\ UNCHANGED <<run, keyFile, configFile, keysGenerated, mgr, svc, twilioAvailable,
                 now, lastSave>>

\* save_twilio_config lines 59-70: load, encrypt, build the new config
SaveLoad(m, account_sid, auth_token, from_number) ==
  /\ Ready(m)
  /\ wr.pending[m].pc = "idle"
  /\ wr' = [wr EXCEPT !.pending[m] =
              [pc |-> "loaded", op |-> "save_twilio_config", name |-> "",
               creds |-> Some(<<account_sid, auth_token, from_number>>),
               config |-> SavedTwilioConfig(m, account_sid, auth_token, from_number)]]
  /\ UNCHANGED <<run, keyFile, configFile, keysGenerated, mgr, svc, twilioAvailable,
                 now, lastSave, ret>>

\* _save_config line 198: open(config_file, 'w') truncates the file
OpenConfig(m) ==
  /\ wr.pending[m].pc = "loaded"
  /\ configFile' = TornFile
  /\ wr' = [wr EXCEPT !.pending[m].pc = "opened"]
  /\ UNCHANGED <<run, keyFile, keysGenerated, mgr, svc, twilioAvailable, now,
                 lastSave, ret>>

\* _save_config line 199 and the return True of the caller
DumpConfig(m) ==
  /\ wr.pending[m].pc = "opened"
  /\ configFile' = File(wr.pending[m].config)
  /\ ret' = [op |-> wr.pending[m].op, m |-> m, result |-> TRUE]
  /\ IF wr.pending[m].op = "save_twilio_config"
       THEN /\ wr' = [wr EXCEPT !.pending[m] = NoWrite, !.saved = TRUE]
            /\ lastSave' = Some([by |-> m, creds |-> wr.pending[m].creds[1]])
       ELSE /\ wr' = [wr EXCEPT !.pending[m] = NoWrite,
                                !.added = @ \cup {wr.pending[m].name}]
            /\ UNCHANGED lastSave
  /\ UNCHANGED <<run, keyFile, keysGenerated, mgr, svc, twilioAvailable, now>>

\* json.dump raises an I/O error, or the write is interrupted: the caller's
\* except clause returns False and the file stays as open() left it
WriteFails(m) ==
  /\ wr.pending[m].pc = "opened"
  /\ ret' = [op |-> wr.pending[m].op, m |-> m, result |-> FALSE]
  /\ wr' = [wr EXCEPT !.pending[m] = NoWrite]
  /\ UNCHANGED <<run, keyFile, configFile, keysGenerated, mgr, svc, twilioAvailable,
                 now, lastSave>>

(* -------------- send_emergency_alert, statement by statement ------------ *)
\* calls of caller c that are past the client check and not yet returned
InProgress == {c \in Callers : run[c].pc # "idle"}

LedgerStaleMutant(c) == SubSeq(svc.alert_history, 1, run[c].lenBefore)

\* the list that line 134 appends to: self.alert_history as it is at that
\* moment (list.append is one indivisible operation of the interpreter)
LedgerAtAppend(c) == svc.alert_history

\* lines 85-89: the client check
AlertCheckClient(c, patient_data, urgency_level, user_notes, phone_number) ==
  /\ svc.constructed
  /\ run[c].pc = "idle"
  /\ Len(svc.alert_history) + Cardinality(InProgress) < MaxLedger
  /\ LET client == ClientFor
     IN  IF client = None
           THEN /\ ret' = [op |-> "send_emergency_alert", success |-> FALSE,
                           status |-> "Twilio client not available",
                           alert |-> None, calls |-> <<>>,
                           lenBefore |-> Len(svc.alert_history),
                           delivered |-> <<FALSE, FALSE>>]
                /\ UNCHANGED <<svc, run>>
           ELSE /\ run' = [run EXCEPT ![c] =
                             [pc |-> "at_compose", recorded |-> run[c].recorded,
                              lenBefore |-> Len(svc.alert_history),
                              patient_data |-> patient_data,
                              urgency_level |-> urgency_level,
                              user_notes |-> user_notes,
                              phone_number |-> phone_number,
                              client |-> client[1],
                              t |-> None, sms_message |-> None,
                              from_number |-> None,
                              sms_result |-> None, voice_result |-> None]]
                /\ svc' = [svc EXCEPT !.twilio_client = client]
                /\ UNCHANGED ret
  /\ UNCHANGED <<wr, keyFile, configFile, keysGenerated, mgr, twilioAvailable, now,
                 lastSave>>

\* lines 92-96: the alert id and the text, both from the clock as it is now
AlertCompose(c) ==
  /\ run[c].pc = "at_compose"
  /\ run' = [run EXCEPT ![c].pc = "at_config",
                        ![c].t = Some(now),
                        ![c].sms_message =
                          Some(format_emergency_message(run[c].patient_data,
                                 run[c].urgency_level, run[c].user_notes, now))]
  /\ UNCHANGED <<wr, keyFile, configFile, keysGenerated, mgr, svc, twilioAvailable,
                 now, lastSave, ret>>

\* lines 99-101: get_twilio_config, and the early return without it
AlertGetConfig(c) ==
  /\ run[c].pc = "at_config"
  /\ LET twilio_config == get_twilio_config(svc.config_manager)
     IN  IF twilio_config = None
           THEN /\ ret' = [op |-> "send_emergency_alert", success |-> FALSE,
                           status |-> "Twilio configuration not found",
                           alert |-> None, calls |-> <<>>,
                           lenBefore |-> Len(svc.alert_history),
                           delivered |-> <<FALSE, FALSE>>]
                /\ run' = [run EXCEPT ![c] = [pc |-> "idle",
                                              recorded |-> run[c].recorded]]
           ELSE /\ run' = [run EXCEPT ![c].pc = "at_sms",
                             ![c].from_number = Some(twilio_config[1].from_phone_number)]
                /\ UNCHANGED ret
  /\ UNCHANGED <<wr, keyFile, configFile, keysGenerated, mgr, svc, twilioAvailable,
                 now, lastSave>>

\* line 104 / 152: messages.create is called and blocks
IssueSms(c) ==
  /\ run[c].pc = "at_sms"
  /\ run' = [run EXCEPT ![c].pc = "sms_in_flight"]
  /\ UNCHANGED <<wr, keyFile, configFile, keysGenerated, mgr, svc, twilioAvailable,
                 now, lastSave, ret>>

\* the provider answers messages.create: _send_sms returns
SmsAnswered(c, outcome) ==
  /\ run[c].pc = "sms_in_flight"
  /\ run' = [run EXCEPT ![c].pc = "at_voice",
                        ![c].sms_result = Some(send_sms(outcome))]
  /\ UNCHANGED <<wr, keyFile, configFile, keysGenerated, mgr, svc, twilioAvailable,
                 now, lastSave, ret>>

\* line 111 / 172: calls.create is called and blocks
IssueVoice(c) ==
  /\ run[c].pc = "at_voice"
  /\ run' = [run EXCEPT ![c].pc = "voice_in_flight"]
  /\ UNCHANGED <<wr, keyFile, configFile, keysGenerated, mgr, svc, twilioAvailable,
                 now, lastSave, ret>>

\* the provider answers calls.create: _make_voice_call returns
VoiceAnswered(c, outcome) ==
  /\ run[c].pc = "voice_in_flight"
  /\ run' = [run EXCEPT ![c].pc = "at_append",
                        ![c].voice_result = Some(make_voice_call(outcome))]
  /\ UNCHANGED <<wr, keyFile, configFile, keysGenerated, mgr, svc, twilioAvailable,
                 now, lastSave, ret>>

\* the record of the call of caller c, once both results are in
AlertOf(c) ==
  EmergencyAlert("EMRG_" \o StrfYmdHMS(run[c].t[1]), run[c].t[1],
                 run[c].patient_data, run[c].urgency_level,
                 run[c].sms_message[1], run[c].phone_number,
                 run[c].sms_result[1], run[c].voice_result[1], run[c].user_notes)

\* lines 119-134: build the record and append it
AlertAppend(c) ==
  /\ run[c].pc = "at_append"
  /\ svc' = [svc EXCEPT !.alert_history = StoreInHistory(LedgerAtAppend(c), AlertOf(c))]
  /\ run' = [run EXCEPT ![c].pc = "at_classify"]
  /\ UNCHANGED <<wr, keyFile, configFile, keysGenerated, mgr, twilioAvailable, now,
                 lastSave, ret>>

\* lines 136-143: classify and return
AlertClassify(c) ==
  /\ run[c].pc = "at_classify"
  /\ LET sms_result == run[c].sms_result[1]
         voice_result == run[c].voice_result[1]
         outcome == Classify(sms_result[1], voice_result[1])
     IN  ret' = [op |-> "send_emergency_alert",
                 success |-> outcome[1], status |-> outcome[2],
                 alert |-> Some(AlertOf(c)),
                 calls |-> << ProviderCall("sms", run[c].client,
                                run[c].phone_number, run[c].from_number[1]),
                              ProviderCall("voice", run[c].client,
                                run[c].phone_number, run[c].from_number[1]) >>,
                 lenBefore |-> run[c].lenBefore,
                 delivered |-> <<sms_result[1], voice_result[1]>>]
  /\ run' = [run EXCEPT ![c] = [pc |-> "idle", recorded |-> run[c].recorded + 1]]
  /\ UNCHANGED <<wr, keyFile, configFile, keysGenerated, mgr, svc, twilioAvailable,
                 now, lastSave>>

(* ------------------- the pure operations, one by one -------------------- *)
Tick ==
  /\ now < MaxClock
  /\ now' = now + 1
  /\ UNCHANGED <<wr, run, keyFile, configFile, keysGenerated, mgr, svc, twilioAvailable,
                 lastSave, ret>>

NormalizePhone(phone_number) ==
  /\ ret' = [op |-> "format_phone_number", phone_number |-> phone_number,
             valid |-> validate_phone_number(phone_number),
             formatted |-> format_phone_number(phone_number)]
  /\ UNCHANGED <<wr, run, keyFile, configFile, keysGenerated, mgr, svc, twilioAvailable,
                 now, lastSave>>

FormatEmergencyMessage(patient_data, urgency_level, user_notes) ==
  /\ ret' = [op |-> "_format_emergency_message", patient_data |-> patient_data,
             urgency_level |-> urgency_level, user_notes |-> user_notes,
             result |-> format_emergency_message(patient_data, urgency_level,
                                                 user_notes, now)]
  /\ UNCHANGED <<wr, run, keyFile, configFile, keysGenerated, mgr, svc, twilioAvailable,
                 now, lastSave>>

GenerateVoiceMessage(urgency_level, patient_data) ==
  /\ ret' = [op |-> "_generate_voice_message", patient_data |-> patient_data,
             urgency_level |-> urgency_level,
             result |-> generate_voice_message(urgency_level, patient_data)]
  /\ UNCHANGED <<wr, run, keyFile, configFile, keysGenerated, mgr, svc, twilioAvailable,
                 now, lastSave>>

\* _send_sms on a client; a client exists only where the twilio import worked
SendSms(outcome) ==
  /\ twilioAvailable
  /\ ret' = [op |-> "_send_sms", outcome |-> outcome, result |-> send_sms(outcome)]
  /\ UNCHANGED <<wr, run, keyFile, configFile, keysGenerated, mgr, svc, twilioAvailable,
                 now, lastSave>>

MakeVoiceCall(outcome) ==
  /\ twilioAvailable
  /\ ret' = [op |-> "_make_voice_call", outcome |-> outcome,
             result |-> make_voice_call(outcome)]
  /\ UNCHANGED <<wr, run, keyFile, configFile, keysGenerated, mgr, svc, twilioAvailable,
                 now, lastSave>>

(* ------------------------------ behaviour ------------------------------ *)
Init ==
  /\ keyFile = NoFile
  /\ configFile = NoFile
  /\ keysGenerated = 0
  /\ mgr = [m \in Managers |-> [pc |-> "unborn", sawKey |-> FALSE, cipher |-> NoKey]]
  /\ svc = [constructed |-> FALSE, config_manager |-> 1, twilio_client |-> None,
            alert_history |-> <<>>]
  /\ twilioAvailable \in BOOLEAN
  /\ now = 0
  /\ lastSave = None
  /\ ret = [op |-> "none"]
  /\ run = [c \in Callers |-> Idle]
  /\ wr = [pending |-> [m \in Managers |-> NoWrite], added |-> {}, saved |-> FALSE]

\* dispatch side: credentials, the service and its ledger
Next ==
  \/ \E m \in Managers : MgrCheckKeyFile(m)
  \/ \E m \in Managers : MgrGetOrCreateCipher(m)
  \/ \E m \in Managers, c \in CredInputs : save_twilio_config(m, c[1], c[2], c[3])
  \/ \E m \in Managers : SvcConstruct(m)
  \/ \E a \in AlertInputs, so \in ProviderOutcomes, vo \in ProviderOutcomes :
       send_emergency_alert(a[1], a[2], a[3], a[4], so, vo)
  \/ \E p \in TestRecipients, so \in ProviderOutcomes : test_sms_configuration(p, so)

Spec == Init /\ [][Next]_vars

\* the alert history of a service over one manager: alerts, reads of the
\* history, and callers changing the lists they were given
NextLedger ==
  \/ MgrCheckKeyFile(LedgerManager)
  \/ MgrGetOrCreateCipher(LedgerManager)
  \/ \E c \in CredInputs : save_twilio_config(LedgerManager, c[1], c[2], c[3])
  \/ SvcConstruct(LedgerManager)
  \/ \E a \in LedgerAlertInputs, so \in ProviderOutcomes, vo \in ProviderOutcomes :
       send_emergency_alert(a[1], a[2], a[3], a[4], so, vo)
  \/ \E p \in TestRecipients, so \in ProviderOutcomes : test_sms_configuration(p, so)
  \/ get_alert_history
  \/ \E kind \in ListMutations : CallerMutatesResult(kind)

SpecLedger == Init /\ [][NextLedger]_vars

\* store side: credentials and contacts through the managers
NextStore ==
  \/ \E m \in Managers : MgrCheckKeyFile(m)
  \/ \E m \in Managers : MgrGetOrCreateCipher(m)
  \/ \E m \in Managers, c \in CredInputs : save_twilio_config(m, c[1], c[2], c[3])
  \/ \E m \in Managers : GetTwilioConfig(m)
  \/ \E m \in Managers, c \in ContactInputs : add_emergency_contact(m, c[1], c[2], c[3])
  \/ \E m \in Managers : GetEmergencyContacts(m)

SpecStore == Init /\ [][NextStore]_vars

\* one send_emergency_alert call at a time, its statements interleaved with
\* the store's operations and the provider's answers
NextSteps ==
  \/ \E m \in Managers : MgrCheckKeyFile(m)
  \/ \E m \in Managers : MgrGetOrCreateCipher(m)
  \/ \E m \in Managers, c \in CredInputs : save_twilio_config(m, c[1], c[2], c[3])
  \/ \E m \in Managers : SvcConstruct(m)
  \/ \E a \in AlertInputs : AlertCheckClient(StepCaller, a[1], a[2], a[3], a[4])
  \/ AlertCompose(StepCaller)
  \/ AlertGetConfig(StepCaller)
  \/ IssueSms(StepCaller)
  \/ \E outcome \in ProviderOutcomes : SmsAnswered(StepCaller, outcome)
  \/ IssueVoice(StepCaller)
  \/ \E outcome \in ProviderOutcomes : VoiceAnswered(StepCaller, outcome)
  \/ AlertAppend(StepCaller)
  \/ AlertClassify(StepCaller)

SpecSteps == Init /\ [][NextSteps]_vars

\* the next statement of the call of caller c, if it is not waiting for the
\* provider
ThreadStep(c) ==
  \/ AlertCompose(c)
  \/ AlertGetConfig(c)
  \/ IssueSms(c)
  \/ IssueVoice(c)
  \/ AlertAppend(c)
  \/ AlertClassify(c)

\* one call at a time on a service over one manager.  The thread that runs
\* the call executes its next statement; nothing makes the provider answer a
\* request (no timeout is passed to the client)
NextOneCall ==
  \/ MgrCheckKeyFile(LedgerManager)
  \/ MgrGetOrCreateCipher(LedgerManager)
  \/ \E c \in CredInputs : save_twilio_config(LedgerManager, c[1], c[2], c[3])
  \/ SvcConstruct(LedgerManager)
  \/ \E a \in AlertInputs : AlertCheckClient(StepCaller, a[1], a[2], a[3], a[4])
  \/ AlertCompose(StepCaller)
  \/ AlertGetConfig(StepCaller)
  \/ IssueSms(StepCaller)
  \/ \E outcome \in ProviderOutcomes : SmsAnswered(StepCaller, outcome)
  \/ IssueVoice(StepCaller)
  \/ \E outcome \in ProviderOutcomes : VoiceAnswered(StepCaller, outcome)
  \/ AlertAppend(StepCaller)
  \/ AlertClassify(StepCaller)

SpecOneCallFair == Init /\ [][NextOneCall]_vars /\ WF_vars(ThreadStep(StepCaller))

\* a request accepted, a request failed
CallerOutcomes == {"ok", "Exception"}

\* several threads calling send_emergency_alert on one service over one
\* manager, their statements interleaved
NextCallers ==
  \/ MgrCheckKeyFile(LedgerManager)
  \/ MgrGetOrCreateCipher(LedgerManager)
  \/ \E c \in CredInputs : save_twilio_config(LedgerManager, c[1], c[2], c[3])
  \/ SvcConstruct(LedgerManager)
  \/ \E c \in Callers, a \in AlertInputs : AlertCheckClient(c, a[1], a[2], a[3], a[4])
  \/ \E c \in Callers : AlertCompose(c)
  \/ \E c \in Callers : AlertGetConfig(c)
  \/ \E c \in Callers : IssueSms(c)
  \/ \E c \in Callers, outcome \in CallerOutcomes : SmsAnswered(c, outcome)
  \/ \E c \in Callers : IssueVoice(c)
  \/ \E c \in Callers, outcome \in CallerOutcomes : VoiceAnswered(c, outcome)
  \/ \E c \in Callers : AlertAppend(c)
  \/ \E c \in Callers : AlertClassify(c)

SpecCallers == Init /\ [][NextCallers]_vars

\* two contacts that are accepted and one that is rejected; one set of
\* credentials
WriterContactInputs ==
  { <<"Dr A", PhoneTenDigits, 2>>, <<"Dr B", PhonePunctuated, 1>>,
    <<"Dr C", PhoneThreeDigits, 1>> }
WriterCredInputs == { <<"AC1", "secret1", "+15550001111">> }

\* config writes of several managers, their statements interleaved
NextWriters ==
  \/ \E m \in Managers : MgrCheckKeyFile(m)
  \/ \E m \in Managers : MgrGetOrCreateCipher(m)
  \/ \E m \in Managers, c \in WriterContactInputs : AddLoad(m, c[1], c[2], c[3])
  \/ \E m \in Managers, c \in WriterCredInputs : SaveLoad(m, c[1], c[2], c[3])
  \/ \E m \in Managers : OpenConfig(m)
  \/ \E m \in Managers : DumpConfig(m)

SpecWriters == Init /\ [][NextWriters]_vars

\* the same, with writes that fail after the file was opened
NextWritersFaulty ==
  \/ \E m \in Managers : MgrCheckKeyFile(m)
  \/ \E m \in Managers : MgrGetOrCreateCipher(m)
  \/ \E m \in Managers, c \in WriterContactInputs : AddLoad(m, c[1], c[2], c[3])
  \/ \E m \in Managers, c \in WriterCredInputs : SaveLoad(m, c[1], c[2], c[3])
  \/ \E m \in Managers : OpenConfig(m)
  \/ \E m \in Managers : DumpConfig(m)
  \/ \E m \in Managers : WriteFails(m)

SpecWritersFaulty == Init /\ [][NextWritersFaulty]_vars

\* the validator, the formatter, the two composers and the two channel
\* functions, called with any argument at any clock value
NextUnits ==
  \/ Tick
  \/ \E phone_number \in PhoneInputs : NormalizePhone(phone_number)
  \/ \E patient_data \in PatientInputs, urgency_level \in UrgencyLevel,
        user_notes \in NotesInputs :
        FormatEmergencyMessage(patient_data, urgency_level, user_notes)
  \/ \E patient_data \in PatientInputs, urgency_level \in UrgencyLevel :
        GenerateVoiceMessage(urgency_level, patient_data)
  \/ \E outcome \in ProviderOutcomes : SendSms(outcome)
  \/ \E outcome \in ProviderOutcomes : MakeVoiceCall(outcome)

SpecUnits == Init /\ [][NextUnits]_vars

(* ============================== claims ================================ *)
IsSend == ret.op = "send_emergency_alert"
IsDispatch == ret.op \in {"send_emergency_alert", "test_sms_configuration"}

\* The store's answer for the service's manager.  ret is rewritten by every
\* call, so while ret shows a service call the files are as that call saw them.
ServiceDecryptFails == DecryptFails(svc.config_manager)
ServiceCredentialsUsable ==
  ~NeverConfigured /\ ~ServiceDecryptFails

LastAlert == svc.alert_history[Len(svc.alert_history)]

\* C1: a send_emergency_alert that got past credential resolution (a client
\* exists and the stored credentials decrypt) appended exactly one record:
\* the ledger is one longer than before, and its last entry is the returned
\* record, whatever the two channels did.
C1_OneRecordPerDispatch ==
  (IsSend /\ svc.twilio_client # None /\ ServiceCredentialsUsable)
    => /\ Len(svc.alert_history) = ret.lenBefore + 1
       /\ ret.alert = Some(LastAlert)

\* C1 witness: both channels failed on a ledger that already held a record,
\* and the ledger still grew by one.
C1_Witness ==
  /\ IsSend /\ ret.alert # None
  /\ ret.delivered = <<FALSE, FALSE>>
  /\ ret.lenBefore = 1
  /\ Len(svc.alert_history) = 2

\* C2: success and status depend on the two channel booleans only: success
\* iff text or voice succeeded, and each of the four combinations has its own
\* status.
C2_ClassificationByChannels ==
  /\ Cardinality({StatusBoth, StatusSmsOnly, StatusVoiceOnly, StatusNone}) = 4
  /\ (IsSend /\ ret.alert # None)
       => LET text == ret.delivered[1]
              voice == ret.delivered[2]
          IN  /\ ret.success = (text \/ voice)
              /\ ret.status = IF text /\ voice THEN StatusBoth
                              ELSE IF text THEN StatusSmsOnly
                              ELSE IF voice THEN StatusVoiceOnly
                              ELSE StatusNone

\* C2 witness: voice alone succeeded and the call reported success.
C2_Witness ==
  /\ IsSend /\ ret.alert # None
  /\ ret.delivered = <<FALSE, TRUE>>
  /\ ret.success
  /\ ret.status = StatusVoiceOnly

\* C3: with credentials absent or undecryptable, send_emergency_alert returns
\* failure with a configuration-error status and no record, issues no
\* provider call and leaves the ledger as it was.
C3_ConfigErrorFailsFast ==
  (IsSend /\ (NeverConfigured \/ ServiceDecryptFails))
    => /\ ret.success = FALSE
       /\ ret.status \in {"Twilio client not available",
                          "Twilio configuration not found"}
       /\ ret.alert = None
       /\ ret.calls = <<>>
       /\ Len(svc.alert_history) = ret.lenBefore

\* C3 witness: a service that had already dispatched (client cached, one
\* record) meets credentials it cannot decrypt.
C3_Witness ==
  /\ IsSend
  /\ ServiceDecryptFails
  /\ svc.twilio_client # None
  /\ ret.lenBefore = 1
  /\ ret.status = "Twilio configuration not found"

\* the statuses returned when the voice channel succeeded
VoiceSucceededStatuses == {StatusBoth, StatusVoiceOnly}

C5_RecordStatusAgreesWithSuccess ==
  (IsSend /\ ret.alert # None)
    => ((ret.alert[1].delivery_status = "failed") <=> (ret.success = FALSE))

\* C6: every provider call of a dispatch logs in with the account identifier
\* and secret the store holds at that dispatch and sends from the stored
\* sender address.
C6_DispatchUsesCurrentCredentials ==
  (IsDispatch /\ ret.calls # <<>>)
    => LET current == get_twilio_config(svc.config_manager)
       IN  /\ current # None
           /\ \A i \in 1..Len(ret.calls) :
                /\ ret.calls[i].auth.account_sid = current[1].account_sid
                /\ ret.calls[i].auth.auth_token = current[1].auth_token
                /\ ret.calls[i].from_ = current[1].from_phone_number

\* C7: get_twilio_config returns, on a decryption failure, a value other
\* than the one it returns for a store that was never configured (None).
C7_DecryptFailureDistinctFromAbsent ==
  (ret.op = "get_twilio_config" /\ ret.decryptFailed) => ret.result # None

\* C8: after a save, get_twilio_config on any instance holding the key the
\* save encrypted with (the saving instance, or one that loaded the same key
\* artifact) returns the account id, sender address and secret of the most
\* recent save.
C8_SaveGetRoundTrip ==
  (ret.op = "get_twilio_config" /\ lastSave # None
     /\ mgr[ret.m].cipher = mgr[lastSave[1].by].cipher)
    => /\ ret.result # None
       /\ <<ret.result[1].account_sid, ret.result[1].auth_token,
            ret.result[1].from_phone_number>> = lastSave[1].creds

\* C8 witness: an instance other than the saver, which read its key from the
\* persisted key artifact, gets the saved triple back.
C8_Witness ==
  /\ ret.op = "get_twilio_config" /\ lastSave # None
  /\ ret.m # lastSave[1].by
  /\ mgr[ret.m].sawKey
  /\ ret.result # None
  /\ ret.result[1].auth_token = lastSave[1].creds[2]

\* C9: the persisted configuration never holds the secret in plaintext: the
\* stored token is a Fernet token, no other credential field carries the
\* secret, and the configuration has no field for the key, which lives in the
\* key file.
C9_SecretEncryptedAtRest ==
  (configFile.exists /\ "twilio" \in DOMAIN configFile.content)
    => LET twilio == configFile.content["twilio"]
       IN  /\ twilio.auth_token.fernet # NoKey
           /\ twilio.account_sid \notin Secrets
           /\ twilio.from_phone_number \notin Secrets
           /\ DOMAIN twilio = {"account_sid", "auth_token", "from_phone_number",
                               "is_configured", "last_updated"}
           /\ DOMAIN configFile.content \subseteq {"twilio", "emergency_contacts"}
           /\ keyFile.exists

\* C9 witness: a secret is stored, encrypted under the key in the key file.
C9_Witness ==
  /\ configFile.exists /\ "twilio" \in DOMAIN configFile.content
  /\ keyFile.exists
  /\ configFile.content["twilio"].auth_token.fernet = keyFile.content
  /\ configFile.content["twilio"].auth_token.payload \in Secrets

\* a number of 10 digits, or of 11 digits starting with the calling code 1
AcceptableShape(phone_number) ==
  LET d == DigitsOnly(phone_number)
  IN  Len(d) = 10 \/ (Len(d) = 11 /\ d[1] = "1")

\* C10: add_emergency_contact with an unacceptable number returns false and
\* leaves the persisted contact list as it was; with an acceptable number it
\* returns true and the listing is one longer.
C10_AddContactValidates ==
  ret.op = "add_emergency_contact"
    => IF AcceptableShape(ret.phone_number)
         THEN /\ ret.result
              /\ Len(get_emergency_contacts) = ret.listed + 1
              /\ Len(StoredContacts) = Len(ret.stored) + 1
         ELSE /\ ~ret.result
              /\ StoredContacts = ret.stored
              /\ Len(get_emergency_contacts) = ret.listed

\* C10 witness: a three-digit number is turned away from a list that already
\* holds a contact.
C10_Witness ==
  /\ ret.op = "add_emergency_contact"
  /\ ret.phone_number = PhoneThreeDigits
  /\ ~ret.result
  /\ Len(StoredContacts) = 1

\* the accepting case of add_emergency_contact on a list that holds a contact
AddContactAcceptedReached ==
  /\ ret.op = "add_emergency_contact"
  /\ ret.result
  /\ ret.listed = 1

\* a stored contact that get_emergency_contacts lists
IsActiveContact(c) == Get(c, "is_active", TRUE)

\* C11: get_emergency_contacts returns exactly the stored contacts whose
\* active flag is set, in non-decreasing priority order, the most recently
\* added one among them.
C11_ListingActiveByPriority ==
  ret.op = "get_emergency_contacts"
    => LET r == ret.result
           active == SelectSeq(StoredContacts, IsActiveContact)
       IN  /\ \A i \in 1..Len(r) : \A j \in i..Len(r) : r[i].priority <= r[j].priority
           /\ Len(r) = Len(active)
           /\ \A i \in 1..Len(active) : \E j \in 1..Len(r) : r[j] = active[i]
           /\ \A j \in 1..Len(r) : \E i \in 1..Len(active) : r[j] = active[i]
           /\ StoredContacts # <<>>
                => \E j \in 1..Len(r) : r[j] = StoredContacts[Len(StoredContacts)]

\* C11 witness: the listing puts a later-added contact of lower priority
\* number ahead of the one stored first.
C11_Witness ==
  /\ ret.op = "get_emergency_contacts"
  /\ Len(ret.result) = 2
  /\ ret.result[1] = StoredContacts[2]
  /\ ret.result[1].priority < ret.result[2].priority

\* E.164: a plus sign followed by digits only
IsE164(phone_number) ==
  /\ Len(phone_number) >= 2
  /\ phone_number[1] = "+"
  /\ \A i \in 2..Len(phone_number) : phone_number[i] \in Digits

\* C13: every phone number in the persisted contact list is in normalized
\* E.164 form.
C13_StoredPhonesNormalized ==
  \A i \in 1..Len(StoredContacts) :
    /\ IsE164(StoredContacts[i].phone_number)
    /\ StoredContacts[i].phone_number = format_phone_number(StoredContacts[i].phone_number)

\* C14: every provider request of send_emergency_alert or
\* test_sms_configuration goes to a recipient number that passes validation.
C14_DispatchOnlyToValidatedNumbers ==
  IsDispatch
    => \A i \in 1..Len(ret.calls) : validate_phone_number(ret.calls[i].to)


\* C12: a number is accepted iff its digits are exactly 10, or exactly 11
\* beginning with the calling code 1; a 10-digit input normalizes to "+1" and
\* its digits, an accepted 11-digit input to "+" and its digits.
C12_PhoneNormalization ==
  ret.op = "format_phone_number"
    => LET d == DigitsOnly(ret.phone_number)
       IN  /\ ret.valid <=> AcceptableShape(ret.phone_number)
           /\ Len(d) = 10 => ret.formatted = <<"+", "1">> \o d
           /\ (Len(d) = 11 /\ d[1] = "1") => ret.formatted = <<"+">> \o d
           /\ Len(d) = 3 => ~ret.valid
           /\ ret.valid => IsE164(ret.formatted) /\ Len(ret.formatted) = 12

\* C12 witness: a punctuated 10-digit number was accepted and normalized.
C12_Witness ==
  /\ ret.op = "format_phone_number"
  /\ ret.phone_number = PhonePunctuated
  /\ ret.valid
  /\ ret.formatted = <<"+", "1">> \o DigitsOnly(PhonePunctuated)

\* C12 second case reached: an 11-digit number with another first digit was
\* rejected.
C12_RejectedElevenReached ==
  /\ ret.op = "format_phone_number"
  /\ Len(DigitsOnly(ret.phone_number)) = 11
  /\ ~ret.valid

\* C15: the text message is at most 160 characters long for every patient
\* context, urgency and notes.
C15_TextWithinSmsLimit ==
  ret.op = "_format_emergency_message" => TextLen(ret.result) <= SmsLimit

\* C16: two calls of a composer with the same arguments return the same
\* string whatever the time between them, and a composer call changes no
\* state.
C16_ComposersPure ==
  [][ /\ ( /\ ret.op = "_format_emergency_message"
           /\ ret'.op = "_format_emergency_message"
           /\ ret'.patient_data = ret.patient_data
           /\ ret'.urgency_level = ret.urgency_level
           /\ ret'.user_notes = ret.user_notes )
         => ret'.result = ret.result
      /\ ( /\ ret.op = "_generate_voice_message"
           /\ ret'.op = "_generate_voice_message"
           /\ ret'.patient_data = ret.patient_data
           /\ ret'.urgency_level = ret.urgency_level )
         => ret'.result = ret.result
      /\ ( /\ ret'.op \in {"_format_emergency_message", "_generate_voice_message"}
           /\ ret' # ret )
         => UNCHANGED <<keyFile, configFile, keysGenerated, mgr, svc,
                        twilioAvailable, now, lastSave>> ]_vars

\* C17: _send_sms and _make_voice_call always return a pair: (TRUE, the
\* confirmation id) when the provider accepts, (FALSE, an error detail) for
\* the provider's own exception and for any other one.
C17_ChannelErrorsBecomeResults ==
  ret.op \in {"_send_sms", "_make_voice_call"}
    => /\ Len(ret.result) = 2
       /\ ret.result[1] = (ret.outcome = "ok")
       /\ ret.outcome = "ok"
            => ret.result[2] = (IF ret.op = "_send_sms" THEN MessageSid ELSE CallSid)
       /\ ret.outcome # "ok" => ret.result[2] \notin {MessageSid, CallSid}

\* C17 witness: an exception that is not the provider's own came back as a
\* failed result.
C17_Witness ==
  /\ ret.op = "_send_sms"
  /\ ret.outcome = "Exception"
  /\ ret.result = <<FALSE, "SMS error">>


\* C18: the voice call is attempted whether the text succeeded or failed, and
\* neither request has to wait for the other to complete: while the text
\* request is outstanding the voice request can be issued.
C18_SendsIndependent ==
  /\ run[StepCaller].pc = "at_voice" => ENABLED IssueVoice(StepCaller)
  /\ run[StepCaller].pc = "sms_in_flight" => ENABLED IssueVoice(StepCaller)

\* the part that holds: after the text request returns, with any result, the
\* voice request is the next statement
C18_VoiceAfterAnyTextResult ==
  run[StepCaller].pc = "at_voice"
    => run[StepCaller].sms_result # None /\ ENABLED IssueVoice(StepCaller)


\* C19: test_sms_configuration issues at most one provider request, a text,
\* never a voice call, and leaves the alert history as it was, whether the
\* test succeeds or fails.
C19_TestSendsOneTextOnly ==
  ret.op = "test_sms_configuration"
    => /\ Len(ret.calls) <= 1
       /\ \A i \in 1..Len(ret.calls) : ret.calls[i].channel = "sms"
       /\ svc.alert_history = ret.historyBefore

\* C19 witness: a failed test after a recorded alert sent its one text and
\* the history still holds that alert.
C19_Witness ==
  /\ ret.op = "test_sms_configuration"
  /\ ~ret.ok
  /\ Len(ret.calls) = 1
  /\ ret.calls[1].channel = "sms"
  /\ Len(svc.alert_history) >= 1

IsPrefix(s, t) == Len(s) <= Len(t) /\ SubSeq(t, 1, Len(s)) = s

\* C20: get_alert_history returns the records in append order; changing the
\* returned list changes nothing in the service; no step removes or reorders
\* records already in the history.
C20_HistoryCopyAppendOnly ==
  /\ [](ret.op = "get_alert_history" /\ ~ret.mutated => ret.result = svc.alert_history)
  /\ [][ /\ IsPrefix(svc.alert_history, svc'.alert_history)
         /\ ( /\ ret.op = "get_alert_history"
              /\ ret'.op = "get_alert_history"
              /\ ~ret.mutated
              /\ ret'.mutated )
            => svc' = svc ]_vars

\* C20 witness: the caller changed a returned list of two records and the
\* history still holds both, in the order they were stored.
C20_Witness ==
  /\ ret.op = "get_alert_history"
  /\ ret.mutated
  /\ Len(svc.alert_history) = 2
  /\ ret.result # svc.alert_history


\* C25: any two records of the alert history have different alert ids, also
\* when both alerts were sent within one clock second.
C25_AlertIdsUnique ==
  \A i \in 1..Len(svc.alert_history) : \A j \in 1..Len(svc.alert_history) :
    i # j => svc.alert_history[i].alert_id # svc.alert_history[j].alert_id

\* C26: at most one key is ever generated, and every constructed manager
\* holds the key that is in the key file, also when two managers are
\* constructed concurrently against an empty directory.
C26_KeyPersistedOnce ==
  /\ keysGenerated <= 1
  /\ \A m \in Managers : Ready(m) => keyFile.exists /\ mgr[m].cipher = keyFile.content

\* the case id in a composed text: the piece that follows "Case: "
CaseIdInText(text, case_id) ==
  \E i \in 1..(Len(text) - 1) : text[i] = "Case: " /\ text[i + 1] = case_id

\* C29: the patient_case_id of every stored record is the case id that its
\* message_content shows, also for a patient_data without a case_id.
C29_RecordCaseIdMatchesText ==
  \A i \in 1..Len(svc.alert_history) :
    CaseIdInText(svc.alert_history[i].message_content,
                 svc.alert_history[i].patient_case_id)

\* the stored credential record, or the empty dict
StoredTwilio == Get(LoadConfig, "twilio", EmptyDict)

\* C30: in sequential use save_twilio_config leaves the stored contacts as
\* they were and add_emergency_contact, accepted or rejected, leaves the
\* stored credential record as it was; the contact list only grows at its end
\* and contact ids are pairwise distinct.
C30_WritesDoNotDisturbEachOther ==
  /\ [](\A i \in 1..Len(StoredContacts) : \A j \in 1..Len(StoredContacts) :
          i # j => StoredContacts[i].contact_id # StoredContacts[j].contact_id)
  /\ [][ /\ ret'.op = "save_twilio_config" => StoredContacts' = StoredContacts
         /\ ret'.op = "add_emergency_contact" => StoredTwilio' = StoredTwilio
         /\ IsPrefix(StoredContacts, StoredContacts') ]_vars

\* C30 witness: credentials were saved over a file that already held a
\* contact, and the contact is still there.
C30_Witness ==
  /\ ret.op = "save_twilio_config"
  /\ Len(StoredContacts) >= 1
  /\ "twilio" \in DOMAIN LoadConfig

\* C30 second case reached: a contact was added to a file that already held
\* credentials, and they are still there.
C30_AddAfterSaveReached ==
  /\ ret.op = "add_emergency_contact"
  /\ ret.result
  /\ Len(StoredContacts) >= 1
  /\ "twilio" \in DOMAIN LoadConfig


\* the checklist in its stated order, with the label shown for each entry
ChecklistOrder ==
  << <<"seizures", "Seizures">>, <<"cardiac_abnormalities", "Cardiac issues">>,
     <<"respiratory_issues", "Respiratory issues">>, <<"developmental_delay", "Dev delay">>,
     <<"intellectual_disability", "Intellectual disability">>,
     <<"failure_to_thrive", "Failure to thrive">> >>

\* the first three checklist entries whose flag is 1 in patient_data
FirstThreeFlagged(patient_data) ==
  LET Flagged(entry) == Get(patient_data, entry[1], 0) = 1
      flagged == SelectSeq(ChecklistOrder, Flagged)
  IN  SubSeq(flagged, 1, IF Len(flagged) < 3 THEN Len(flagged) ELSE 3)

\* the symptom part that lists these entries
SymptomPartOf(entries) ==
  <<"Symptoms: ">> \o Join([i \in 1..Len(entries) |-> <<entries[i][2]>>], ", ") \o <<" | ">>

\* the notes part for notes that are not blank
NotesPartOf(user_notes) ==
  <<"Notes: ">> \o Prefix(Strip(user_notes), 50) \o <<" | ">>

ContainsSeq(text, part) ==
  \E i \in 1..(Len(text) - Len(part) + 1) : SubSeq(text, i, i + Len(part) - 1) = part

HasPiece(text, piece) == \E i \in 1..Len(text) : text[i] = piece

UrgencyLabelOf(urgency_level) ==
  CASE urgency_level = "Critical" -> "# CRITICAL EMERGENCY"
    [] urgency_level = "High" -> "## HIGH PRIORITY"
    [] urgency_level = "Medium" -> "# MEDIUM PRIORITY"
    [] urgency_level = "Low" -> "## LOW PRIORITY"

\* every text carries the urgency label and a case id, the given one if any
LabelAndCaseIdShown ==
  /\ Head(ret.result) = UrgencyLabelOf(ret.urgency_level)
  /\ HasPiece(ret.result, "Case: ")
  /\ "case_id" \in DOMAIN ret.patient_data
       => CaseIdInText(ret.result, ret.patient_data["case_id"])

\* the symptom part lists the first three flagged entries; none flagged,
\* there is no symptom part
SymptomsShown ==
  LET entries == FirstThreeFlagged(ret.patient_data)
  IN  IF entries = <<>> THEN ~HasPiece(ret.result, "Symptoms: ")
      ELSE ContainsSeq(ret.result, SymptomPartOf(entries))

\* C28: every composed text lists the first three flagged checklist entries
\* in checklist order (no symptom part when none is flagged), carries the
\* urgency label and the case id, and shows notes only when they are not
\* blank, cut to 50 characters.
C28_SymptomsAndNotesShown ==
  ret.op = "_format_emergency_message"
    => /\ LabelAndCaseIdShown
       /\ SymptomsShown
       /\ HasPiece(ret.result, "Notes: ")
            => /\ Strip(ret.user_notes) # <<>>
               /\ ContainsSeq(ret.result, NotesPartOf(ret.user_notes))

\* the text is the short form used when the full one exceeds 160 characters
IsEssentialForm == ret.result[Len(ret.result)] = "Check NGP system"

\* C28 amended: the full form lists the first three flagged checklist
\* entries and shows non-blank notes cut to 50 characters; the short form
\* that replaces a full form of more than 160 characters has no symptom part
\* and no notes; both carry the urgency label and the case id.
C28_Amended ==
  ret.op = "_format_emergency_message"
    => /\ LabelAndCaseIdShown
       /\ IF IsEssentialForm
            THEN /\ ~HasPiece(ret.result, "Symptoms: ")
                 /\ ~HasPiece(ret.result, "Notes: ")
            ELSE /\ TextLen(ret.result) <= SmsLimit
                 /\ SymptomsShown
                 /\ IF Strip(ret.user_notes) = <<>>
                      THEN ~HasPiece(ret.result, "Notes: ")
                      ELSE ContainsSeq(ret.result, NotesPartOf(ret.user_notes))

\* C28 witness: a full-form text for a context with four flags set lists
\* three of them.
C28_Witness ==
  /\ ret.op = "_format_emergency_message"
  /\ ~IsEssentialForm
  /\ Len(FirstThreeFlagged(ret.patient_data)) = 3
  /\ ContainsSeq(ret.result, <<"Symptoms: ", "Seizures", ", ", "Cardiac issues", ", ", "Dev delay">>)

\* C28 notes case reached: a full-form text shows 50 of 60 characters of notes.
C28_NotesCutReached ==
  /\ ret.op = "_format_emergency_message"
  /\ ~IsEssentialForm
  /\ ret.user_notes = NotesLong
  /\ ContainsSeq(ret.result, <<"Notes: ">> \o [i \in 1..50 |-> "n"] \o <<" | ">>)


\* the steps of the call of caller c that are done
CredentialsResolved(c) == run[c].pc # "idle" /\ run[c].from_number # None
ContentComposed(c) == run[c].pc # "idle" /\ run[c].sms_message # None
TextAttempted(c) == run[c].pc # "idle" /\ run[c].sms_result # None
VoiceAttempted(c) == run[c].pc # "idle" /\ run[c].voice_result # None
RecordAppended(c) == run[c].pc = "at_classify"
\* the outcome is classified by the statements that return it
OutcomeClassified(c) == FALSE

\* C21: a call that has resolved its credentials eventually appends its
\* record and returns, whatever the provider does, also when it never
\* answers a request.
C21_ResolvedDispatchIsRecorded ==
  CredentialsResolved(StepCaller) ~> (run[StepCaller].pc = "idle")

\* C22: within one call no step is taken before its predecessor: resolve
\* credentials, compose, attempt both channels, classify, append.
C22_StepsInStatedOrder ==
  \A c \in Callers :
    /\ ContentComposed(c) => CredentialsResolved(c)
    /\ run[c].pc \in {"sms_in_flight", "voice_in_flight"} => ContentComposed(c)
    /\ TextAttempted(c) \/ VoiceAttempted(c) => ContentComposed(c)
    /\ RecordAppended(c) => TextAttempted(c) /\ VoiceAttempted(c)
    /\ RecordAppended(c) => OutcomeClassified(c)

\* the order the statements do have: compose, resolve, text, voice, append
C22_StepsInSourceOrder ==
  \A c \in Callers :
    /\ CredentialsResolved(c) => ContentComposed(c)
    /\ run[c].pc \in {"sms_in_flight", "voice_in_flight"} => CredentialsResolved(c)
    /\ TextAttempted(c) => CredentialsResolved(c)
    /\ VoiceAttempted(c) => TextAttempted(c)
    /\ RecordAppended(c) => TextAttempted(c) /\ VoiceAttempted(c)

RECURSIVE SumRecorded(_)
SumRecorded(callers) ==
  IF callers = {} THEN 0
  ELSE LET c == CHOOSE x \in callers : TRUE
       IN  run[c].recorded + SumRecorded(callers \ {c})

\* C24: the history holds one record for every call that got past
\* credential resolution and returned, and one for every call that has
\* appended and not yet returned, however the calls interleave.
C24_NoLostLedgerEntries ==
  Len(svc.alert_history)
    = SumRecorded(Callers) + Cardinality({c \in Callers : RecordAppended(c)})

\* C24 witness: two calls ran concurrently, both appended before either
\* returned, and the history holds two records.
C24_Witness ==
  /\ RecordAppended(1)
  /\ RecordAppended(2)
  /\ Len(svc.alert_history) = 2

\* C24 quiescent case reached: both calls have returned.
C24_BothReturnedReached ==
  /\ run[1] = [pc |-> "idle", recorded |-> 1]
  /\ run[2] = [pc |-> "idle", recorded |-> 1]
  /\ Len(svc.alert_history) = 2


NoWritePending == \A m \in Managers : wr.pending[m].pc = "idle"

\* C23: when no write is in progress, the persisted configuration holds
\* every contact whose add_emergency_contact returned True, and the
\* credential record if a save_twilio_config returned True, however the
\* calls interleaved.
C23_NoLostConfigUpdates ==
  NoWritePending
    => /\ \A name \in wr.added :
            \E i \in 1..Len(StoredContacts) : StoredContacts[i].name = name
       /\ wr.saved => "twilio" \in DOMAIN LoadConfig

\* C27: after save_twilio_config has ended, returning True or False, the
\* persisted configuration is a complete one, never a partial or unreadable
\* file.
C27_SaveAllOrNothing ==
  (ret.op = "save_twilio_config" /\ \A m \in Managers : wr.pending[m].pc # "opened")
    => ~IsTorn(configFile)


====
